---- MODULE Spec2Model ----
(***************************************************************************)
(* Model of the toilet-monitoring firmware's ammonia pipeline              *)
(* (main/amoniaSensor.cpp, main/amoniaSensor.h) and of its OLED status     *)
(* driver (main/display.cpp).                                              *)
(*                                                                         *)
(* Numbers.  The firmware computes in IEEE floats; TLC has 32-bit integers *)
(* only, so every float is a fixed-point integer here:                     *)
(*   resistances (Rs, rsLama, totalRs, R0)   ohms, truncated               *)
(*   a resistance ratio Rs/R0                1/RatioScale   (1e-4)         *)
(*   a base-10 logarithm                     1/LogScale     (1e-4)         *)
(*   a concentration (ppm), the buffer sum   1/PpmScale ppm (1e-6)         *)
(*   a regression score                      1e-6                          *)
(*   millis()                                milliseconds                  *)
(* log10() and pow(10, .) are computed digit by digit from tables of       *)
(* powers of ten, correct to about 1e-4 relative.                          *)
(***************************************************************************)
EXTENDS Integers, Sequences, FiniteSets

Abs(x) == IF x < 0 THEN -x ELSE x

(***************************************************************************)
(* Constants of amoniaSensor.h and amoniaSensor.cpp.                       *)
(***************************************************************************)
AdcMax == 4095
Vcc == 5
RL == 4700
\* NH3_Curve[2] = {-2.3447, 0.0670}, in 1/LogScale.
NH3_Curve == << -23447, 670 >>
\* REG_INTERCEPT = -0.805 and REG_SLOPE = 1.989, in thousandths.
REG_INTERCEPT == -805
REG_SLOPE == 1989
calibrationInterval == 7200000
AVERAGING_INTERVAL == 300000
maxPembacaan == 30
\* delay(300) twice per calibration sample.
SampleDelay == 300 + 300

RECURSIVE TenTo(_)
TenTo(n) == IF n = 0 THEN 1 ELSE 10 * TenTo(n - 1)

\* Fixed-point units (see the header): 1e-4 for ratios and logarithms, 1e-6 ppm.
RatioScale == TenTo(4)
LogScale == TenTo(4)
PpmScale == TenTo(6)
\* The float +inf of a concentration (pow(10, +inf)).
PpmInf == 2 * TenTo(9)

(***************************************************************************)
(* pow(10, x) and log10(x) in fixed point.                                 *)
(***************************************************************************)
\* 10^(d/10), 10^(d/100), 10^(d/1000), 10^(d/10000) for d = 0..9, times 1e5.
PowTable ==
    << << 100000, 125893, 158489, 199526, 251189, 316228, 398107, 501187, 630957, 794328 >>,
       << 100000, 102329, 104713, 107152, 109648, 112202, 114815, 117490, 120226, 123027 >>,
       << 100000, 100231, 100462, 100693, 100925, 101158, 101391, 101625, 101859, 102094 >>,
       << 100000, 100023, 100046, 100069, 100092, 100115, 100138, 100161, 100184, 100207 >> >>

\* x * y for x, y in 1e-5 units below 10.0, without leaving 32 bits.
MulFix(x, y) == (x * (y \div 1000)) \div 100 + (x * (y % 1000)) \div 100000

\* 10^(r/LogScale) for 0 <= r < LogScale, in 1e-5 units (1.0 .. 10.0).
Mantissa(r) ==
    LET d1 == r \div 1000
        d2 == (r \div 100) % 10
        d3 == (r \div 10) % 10
        d4 == r % 10
    IN  MulFix(MulFix(MulFix(PowTable[1][d1 + 1], PowTable[2][d2 + 1]),
                      PowTable[3][d3 + 1]), PowTable[4][d4 + 1])

\* 10^(e/LogScale), in units of 10^-digits.
Pow10Fix(e, digits) ==
    LET q == e \div LogScale
        m == Mantissa(e % LogScale)
        s == q + digits - 5
    IN  IF s >= 0 THEN m * TenTo(s) ELSE m \div TenTo(-s)

\* log10(x/RatioScale) in 1/LogScale: the largest L in lo..hi with
\* 10^(L/LogScale) <= x/RatioScale, by bisection.
RECURSIVE Log10Search(_, _, _)
Log10Search(x, lo, hi) ==
    IF lo >= hi THEN lo
    ELSE LET mid == (lo + hi + 1) \div 2
         IN  IF Pow10Fix(mid, 5) <= 10 * x THEN Log10Search(x, mid, hi)
                                      ELSE Log10Search(x, lo, mid - 1)

Log10Fix(x) == Log10Search(x, -2 * LogScale, 2 * LogScale)


(***************************************************************************)
(* Pure computations of amoniaSensor.cpp.                                  *)
(***************************************************************************)
\* Vout = (adc / 4095.0) * Vcc; Rs = ((Vcc - Vout) / Vout) * RL, for adc >= 1.
RsOf(a) == ((Vcc * AdcMax - a * Vcc) * RL) \div (a * Vcc)

\* delta = abs(Rs - rsLama) / rsLama; delta < 0.02.  With rsLama = 0 the float
\* delta is +inf or NaN and the comparison is false.
DeltaStabil(Rs, lama) == lama # 0 /\ 100 * Abs(Rs - lama) < 2 * lama

\* A counter that is never reset.
StabilNext_NoReset(idx, Rs, lama, count) ==
    IF idx > 0 /\ DeltaStabil(Rs, lama) THEN count + 1 ELSE count

\* The stability counter after the sample of loop index idx.
StabilNext(idx, Rs, lama, count) ==
    IF idx > 0 THEN (IF DeltaStabil(Rs, lama) THEN count + 1 ELSE 0) ELSE count

\* The mean taken over the sample budget, whatever the number of samples.
Baseline_Budget(total, n) == total \div maxPembacaan

\* R0 = totalRs / (i + 1) on the early exit, totalRs / maxPembacaan after the loop.
Baseline(total, n) == total \div n

\* float ratio = Rs / R0.
RatioOf(Rs, r0) == (Rs * RatioScale) \div r0

\* getPPM: log_ppm = a * log10(ratio) + b; return pow(10, log_ppm).  log10(0) is
\* -inf, so a ratio of 0 gives 10^(+inf) = +inf for a < 0 and 10^(-inf) = 0 for a > 0.
getPPM(ratio, a, b) ==
    IF ratio = 0 THEN (IF a < 0 THEN PpmInf ELSE 0)
    ELSE Pow10Fix((a * Log10Fix(ratio)) \div LogScale + b, 6)

\* The curve's coefficients in the other order: slope 0.0670, intercept -2.3447.
SamplePPM_Swapped(a, r0) == getPPM(RatioOf(RsOf(a), r0), NH3_Curve[2], NH3_Curve[1])

\* The sample updateAmoniaBuffer adds for a reading: getPPM(ratio, NH3_Curve[0], NH3_Curve[1]).
SamplePPM(a, r0) == getPPM(RatioOf(RsOf(a), r0), NH3_Curve[1], NH3_Curve[2])

\* An assignment in place of the +=.
AddPPM_Assign(sum, ppm) == ppm

\* amoniaPPMBuffer += ppm_NH3, in floats with +inf.
AddPPM(sum, ppm) == IF sum = PpmInf \/ ppm = PpmInf THEN PpmInf ELSE sum + ppm

\* amoniaPPMBuffer / bufferCount when bufferCount > 0, else 0.0.
AveragedPPM(sum, count) ==
    IF count > 0 THEN (IF sum = PpmInf THEN PpmInf ELSE sum \div count) ELSE 0

\* A window that flushes only after the interval, not at it.
WindowElapsed_Strict(t, last) == t - last > AVERAGING_INTERVAL

\* The window test of getAveragedPPM: now - lastAveragingTime >= AVERAGING_INTERVAL.
WindowElapsed(t, last) == t - last >= AVERAGING_INTERVAL

\* A recalibration that is due only after the interval, not at it.
AutoDue_Strict(flag, t, last) == ~flag /\ t - last > calibrationInterval

\* The test of autoKalibrasiAmoniaSensor.
AutoDue(flag, t, last) == ~flag /\ t - last >= calibrationInterval

\* score = REG_INTERCEPT + REG_SLOPE * ppm after the clamp of negative ppm, in 1e-6.
LikertScore(ppm) ==
    LET p == IF ppm < 0 THEN 0 ELSE ppm
    IN  REG_INTERCEPT * 1000 + REG_SLOPE * (p \div 1000) + (REG_SLOPE * (p % 1000)) \div 1000

\* A first cut-point at 1.0.
konversiKeLikert_Cut(ppm) ==
    IF ppm = PpmInf THEN 3
    ELSE IF LikertScore(ppm) <= 1000000 THEN 1
    ELSE IF LikertScore(ppm) <= 2500000 THEN 2
    ELSE 3

\* konversiKeLikert: score <= 1.5 -> 1, score <= 2.5 -> 2, else 3.
konversiKeLikert(ppm) ==
    IF ppm = PpmInf THEN 3
    ELSE IF LikertScore(ppm) <= 1500000 THEN 1
    ELSE IF LikertScore(ppm) <= 2500000 THEN 2
    ELSE 3

(***************************************************************************)
(* display.cpp: the cached status string and what the panel shows.         *)
(***************************************************************************)
StatusScreen(s) == << "status", s >>
RunningScreen(ip, id) == << "running", id, ip >>
PortalScreen(ap, ip) == << "portal", ap, ip >>
\* Nothing has been sent to the panel since power-up.
BlankScreen == << "blank" >>

\* A driver that redraws on every call.
StatusChanged_Always(s, cached) == TRUE

\* The test of displayStatus: status != currentStatus.
StatusChanged(s, cached) == s # cached

\* displayStatus(status) on the display state d = [status, oled, frames]:
\* frames counts the display.display() calls of the running handler.
DisplayStatusOn(d, s) ==
    IF StatusChanged(s, d.status)
    THEN [status |-> s, oled |-> StatusScreen(s), frames |-> d.frames + 1]
    ELSE d

(***************************************************************************)
(* Bounds of the model and the inputs it enumerates.                       *)
(***************************************************************************)
\* ADC codes the gas sensor can present: Rs = 7000, 7050 (0.7% apart), 5800 (17%
\* away) and 0 ohms (code 4095, a shorted sensor).  Code 0 (Vout = 0, Rs = +inf)
\* is left out.
AdcLevels == {1645, 1638, 1833, 4095}
\* How often the sensor's level changes in a behaviour.
MaxJumps == 2
\* How often the clock is advanced between calls, and by how much.
MaxTicks == 3
ShortTick == AVERAGING_INTERVAL \div 2
LongTick == calibrationInterval
\* Samples accumulated in one averaging window.
MaxSamples == 3
\* Calibration runs in a behaviour.
MaxRuns == 2
\* Arguments of the display calls.
StatusStrings == {"Memulai...", "Kalibrasi...", "Online", "Auto Kalibrasi"}
IpAddresses == {"192.168.1.7", "10.0.0.2"}
DeviceIds == {"toilet-1"}
ApNames == {"ToiletSetup"}
\* Inputs of konversiKeLikert: -1 .. MaxPpm ppm in steps of 0.025 ppm.
MaxPpm == 3
PpmInputs == {k * (PpmScale \div 40) : k \in -40 .. 40 * MaxPpm}

VARIABLES
    adc,                  \* environment: the code analogRead(gasPinLantai1) returns now
    now,                  \* environment: millis()
    R0,
    sedangKalibrasi,
    lastCalibrationTime,
    amoniaPPMBuffer,
    bufferCount,
    lastAveragingTime,
    currentStatus,        \* display.cpp's cached status string
    oled,                 \* what the panel shows
    pc,                   \* "idle", "sampling" (inside kalibrasiAmoniaSensor's loop), "halted"
    i,                    \* locals of kalibrasiAmoniaSensor
    rsLama,
    totalRs,
    stabilCount,
    op,                   \* history: the last call (or "env"), its argument, its result
    arg,
    ret,
    drawn,                \* history: display.display() calls made by the last call
    hist,                 \* history: the samples of the current or last calibration run
    used                  \* the budget used: [jumps, ticks, runs]

sensorVars == << R0, sedangKalibrasi, lastCalibrationTime >>
bufferVars == << amoniaPPMBuffer, bufferCount, lastAveragingTime >>
displayVars == << currentStatus, oled >>
localVars == << pc, i, rsLama, totalRs, stabilCount, hist >>
envVars == << adc, now, used >>
callVars == << op, arg, ret, drawn >>
vars == << adc, now, R0, sedangKalibrasi, lastCalibrationTime, amoniaPPMBuffer,
           bufferCount, lastAveragingTime, currentStatus, oled, pc, i, rsLama,
           totalRs, stabilCount, op, arg, ret, drawn, hist, used >>

NoHist == [n |-> 0, sum |-> 0, last |-> 0, run |-> 0, eq |-> 0, lo |-> 0, hi |-> 0,
           via |-> "none"]

\* The globals as their definitions initialise them; nothing drawn yet.
Init ==
    /\ adc \in AdcLevels
    /\ now = 0
    /\ R0 = 0
    /\ sedangKalibrasi = TRUE
    /\ lastCalibrationTime = 0
    /\ amoniaPPMBuffer = 0
    /\ bufferCount = 0
    /\ lastAveragingTime = 0
    /\ currentStatus = "Memulai..."
    /\ oled = BlankScreen
    /\ pc = "idle"
    /\ i = 0 /\ rsLama = 0 /\ totalRs = 0 /\ stabilCount = 0
    /\ op = "boot" /\ arg = 0 /\ ret = 0 /\ drawn = 0
    /\ hist = NoHist
    /\ used = [jumps |-> 0, ticks |-> 0, runs |-> 0]

Called(name, a, r) == op' = name /\ arg' = a /\ ret' = r

Disp == [status |-> currentStatus, oled |-> oled, frames |-> 0]
SetDisplay(d) == currentStatus' = d.status /\ oled' = d.oled /\ drawn' = d.frames

(***************************************************************************)
(* Environment.                                                            *)
(***************************************************************************)
\* Time passes between two calls of the polling loop.
Tick(dt) ==
    /\ pc = "idle"
    /\ used.ticks < MaxTicks
    /\ now' = now + dt
    /\ used' = [used EXCEPT !.ticks = @ + 1]
    /\ Called("env", 0, 0) /\ drawn' = 0
    /\ UNCHANGED << adc, sensorVars, bufferVars, displayVars, localVars >>

\* The gas sensor's resistance moves to another level while a calibration run
\* samples it, before any of its samples: at most MaxJumps times in a behaviour.
\* (A move before the run is a move before its first sample.)
SensorChange ==
    /\ pc = "sampling"
    /\ used.jumps < MaxJumps
    /\ \E a \in AdcLevels \ {adc} : adc' = a
    /\ used' = [used EXCEPT !.jumps = @ + 1]
    /\ Called("env", 0, 0) /\ drawn' = 0
    /\ UNCHANGED << now, sensorVars, bufferVars, displayVars, localVars >>

\* The gas sensor's resistance moves to another level between two calls of the
\* polling loop: it is steady while a calibration run blocks the loop.
SensorDrift ==
    /\ pc = "idle"
    /\ \E a \in AdcLevels \ {adc} : adc' = a
    /\ Called("env", 0, 0) /\ drawn' = 0
    /\ UNCHANGED << now, used, sensorVars, bufferVars, displayVars, localVars >>

(***************************************************************************)
(* display.cpp                                                             *)
(***************************************************************************)
\* setupDisplay: display.begin() fails -> for(;;); else displayStatus("Memulai...").
setupDisplay ==
    /\ pc = "idle"
    /\ \E beginOk \in BOOLEAN :
          IF beginOk
          THEN /\ SetDisplay(DisplayStatusOn(Disp, "Memulai..."))
               /\ pc' = "idle"
               /\ Called("setupDisplay", 0, 0)
          ELSE /\ pc' = "halted"
               /\ Called("setupDisplay", 0, 0)
               /\ drawn' = 0
               /\ UNCHANGED displayVars
    /\ UNCHANGED << envVars, sensorVars, bufferVars, i, rsLama, totalRs, stabilCount, hist >>

displayStatus(s) ==
    /\ pc = "idle"
    /\ SetDisplay(DisplayStatusOn(Disp, s))
    /\ Called("displayStatus", s, 0)
    /\ UNCHANGED << envVars, sensorVars, bufferVars, localVars >>

displayRunningStatus(ip, id) ==
    /\ pc = "idle"
    /\ oled' = RunningScreen(ip, id)
    /\ drawn' = 1
    /\ Called("displayRunningStatus", << ip, id >>, 0)
    /\ UNCHANGED << currentStatus, envVars, sensorVars, bufferVars, localVars >>

displayPortalStatus(ap, ip) ==
    /\ pc = "idle"
    /\ oled' = PortalScreen(ap, ip)
    /\ drawn' = 1
    /\ Called("displayPortalStatus", << ap, ip >>, 0)
    /\ UNCHANGED << currentStatus, envVars, sensorVars, bufferVars, localVars >>

(***************************************************************************)
(* amoniaSensor.cpp                                                        *)
(***************************************************************************)
setupAmoniaSensor ==
    /\ pc = "idle"
    /\ lastAveragingTime' = now
    /\ Called("setupAmoniaSensor", 0, 0) /\ drawn' = 0
    /\ UNCHANGED << envVars, sensorVars, amoniaPPMBuffer, bufferCount,
                    displayVars, localVars >>

\* The exit test of the calibration loop: stabilCount >= 5.
StabilReached(count) == count >= 5

\* Entry of kalibrasiAmoniaSensor, from the display state d: the locals are
\* initialised and "Kalibrasi..." is signalled; the loop follows.
KalibrasiEnter(d, via) ==
    /\ used.runs < MaxRuns
    /\ used' = [used EXCEPT !.runs = @ + 1]
    /\ pc' = "sampling"
    /\ i' = 0 /\ rsLama' = 0 /\ totalRs' = 0 /\ stabilCount' = 0
    /\ SetDisplay(DisplayStatusOn(d, "Kalibrasi..."))
    /\ hist' = [NoHist EXCEPT !.via = via]

kalibrasiAmoniaSensor ==
    /\ pc = "idle"
    /\ KalibrasiEnter(Disp, "call")
    /\ Called("kalibrasiAmoniaSensor", 0, 0)
    /\ UNCHANGED << adc, now, sensorVars, bufferVars >>

\* The call at boot, while sedangKalibrasi still has its initial value.
bootKalibrasi == sedangKalibrasi /\ kalibrasiAmoniaSensor

\* The history of a calibration run after the sample Rs, written from the
\* samples alone: how many, their sum, the last one, the number of consecutive
\* latest samples whose relative change from their predecessor is below 2%, the
\* number of consecutive latest samples equal to the last one, and the extremes.
HistAfter(h, Rs) ==
    [n    |-> h.n + 1,
     sum  |-> h.sum + Rs,
     last |-> Rs,
     run  |-> IF h.n > 0 /\ h.last # 0 /\ 50 * Abs(Rs - h.last) < h.last
              THEN h.run + 1 ELSE 0,
     eq   |-> IF h.n > 0 /\ Rs = h.last THEN h.eq + 1 ELSE 1,
     lo   |-> IF h.n = 0 \/ Rs < h.lo THEN Rs ELSE h.lo,
     hi   |-> IF h.n = 0 \/ Rs > h.hi THEN Rs ELSE h.hi,
     via  |-> h.via]

\* The return from inside the loop, at loop index idx and time t:
\* R0 = totalRs / (i + 1); sedangKalibrasi = false; displayStatus("Online");
\* lastCalibrationTime = millis(); return.
ReturnEarly(total, idx, t) ==
    /\ R0' = Baseline(total, idx + 1)
    /\ sedangKalibrasi' = FALSE
    /\ SetDisplay(DisplayStatusOn(Disp, "Online"))
    /\ lastCalibrationTime' = t
    /\ pc' = "idle"
    /\ i' = 0 /\ rsLama' = 0 /\ totalRs' = 0 /\ stabilCount' = 0
    /\ Called("kalibrasiReturn", 0, 0)

\* A return after the loop that leaves the flag as it was.
ReturnExhausted_FlagLeft(total, t) ==
    /\ R0' = Baseline(total, maxPembacaan)
    /\ sedangKalibrasi' = sedangKalibrasi
    /\ SetDisplay(DisplayStatusOn(Disp, "Online"))
    /\ lastCalibrationTime' = t
    /\ pc' = "idle"
    /\ i' = 0 /\ rsLama' = 0 /\ totalRs' = 0 /\ stabilCount' = 0
    /\ Called("kalibrasiReturn", 0, 0)

\* The return after the loop: R0 = totalRs / maxPembacaan, and the same four lines.
ReturnExhausted(total, t) ==
    /\ R0' = Baseline(total, maxPembacaan)
    /\ sedangKalibrasi' = FALSE
    /\ SetDisplay(DisplayStatusOn(Disp, "Online"))
    /\ lastCalibrationTime' = t
    /\ pc' = "idle"
    /\ i' = 0 /\ rsLama' = 0 /\ totalRs' = 0 /\ stabilCount' = 0
    /\ Called("kalibrasiReturn", 0, 0)

\* One iteration of the loop (blink for 600 ms, read, compare, accumulate), and
\* with it the return: from inside the loop once the counter reaches 5, or after
\* the loop when this was the last of the maxPembacaan samples.
KalibrasiSample ==
    /\ pc = "sampling"
    /\ LET Rs    == RsOf(adc)
           stab  == StabilNext(i, Rs, rsLama, stabilCount)
           total == totalRs + Rs
           t     == now + SampleDelay
       IN  /\ now' = t
           /\ hist' = HistAfter(hist, Rs)
           /\ IF StabilReached(stab)
              THEN ReturnEarly(total, i, t)
              ELSE IF i + 1 >= maxPembacaan
              THEN ReturnExhausted(total, t)
              ELSE /\ i' = i + 1
                   /\ rsLama' = Rs
                   /\ totalRs' = total
                   /\ stabilCount' = stab
                   /\ pc' = "sampling"
                   /\ Called("kalibrasiSample", 0, 0) /\ drawn' = 0
                   /\ UNCHANGED << sensorVars, displayVars >>
    /\ UNCHANGED << adc, used, bufferVars >>

autoKalibrasiAmoniaSensor ==
    /\ pc = "idle"
    /\ Called("autoKalibrasiAmoniaSensor", 0, 0)
    /\ IF AutoDue(sedangKalibrasi, now, lastCalibrationTime)
       THEN /\ sedangKalibrasi' = TRUE
            /\ KalibrasiEnter(DisplayStatusOn(Disp, "Auto Kalibrasi"), "auto")
            /\ UNCHANGED << adc, now, R0, lastCalibrationTime, bufferVars >>
       ELSE /\ drawn' = 0
            /\ UNCHANGED << envVars, sensorVars, bufferVars, displayVars, localVars >>

updateAmoniaBuffer ==
    /\ pc = "idle"
    /\ Called("updateAmoniaBuffer", adc, 0) /\ drawn' = 0
    /\ IF sedangKalibrasi \/ R0 = 0
       THEN UNCHANGED << amoniaPPMBuffer, bufferCount >>
       ELSE /\ bufferCount < MaxSamples
            /\ amoniaPPMBuffer' = AddPPM(amoniaPPMBuffer, SamplePPM(adc, R0))
            /\ bufferCount' = bufferCount + 1
    /\ UNCHANGED << envVars, sensorVars, lastAveragingTime, displayVars, localVars >>

\* The body of getAveragedPPM; its return value is AveragedPPM of the state before.
Averaging ==
    IF WindowElapsed(now, lastAveragingTime)
    THEN /\ amoniaPPMBuffer' = 0
         /\ bufferCount' = 0
         /\ lastAveragingTime' = now
    ELSE UNCHANGED << amoniaPPMBuffer, bufferCount, lastAveragingTime >>

getAveragedPPM ==
    /\ pc = "idle"
    /\ Averaging
    /\ Called("getAveragedPPM", 0, AveragedPPM(amoniaPPMBuffer, bufferCount)) /\ drawn' = 0
    /\ UNCHANGED << envVars, sensorVars, displayVars, localVars >>

\* konversiKeLikert called on its own.
konversiKeLikertCall ==
    /\ pc = "idle"
    /\ \E ppm \in PpmInputs : Called("konversiKeLikert", ppm, konversiKeLikert(ppm))
    /\ drawn' = 0
    /\ UNCHANGED << envVars, sensorVars, bufferVars, displayVars, localVars >>

(***************************************************************************)
(* Specifications.                                                         *)
(***************************************************************************)
DisplayCalls ==
    \/ setupDisplay
    \/ \E s \in StatusStrings : displayStatus(s)
    \/ \E ip \in IpAddresses, id \in DeviceIds : displayRunningStatus(ip, id)
    \/ \E ap \in ApNames, ip \in IpAddresses : displayPortalStatus(ap, ip)

\* The averaging pipeline: the boot calibration (on a steady sensor), then the
\* polling loop buffering and reading.
Next ==
    \/ Tick(ShortTick)
    \/ SensorDrift
    \/ setupAmoniaSensor
    \/ bootKalibrasi
    \/ KalibrasiSample
    \/ updateAmoniaBuffer
    \/ getAveragedPPM

Spec == Init /\ [][Next]_vars

\* Calibration runs on a sensor that moves while the run samples it.
NextKalibrasi ==
    \/ SensorChange
    \/ kalibrasiAmoniaSensor
    \/ KalibrasiSample

SpecKalibrasi == Init /\ [][NextKalibrasi]_vars

\* Automatic recalibration against the clock.
NextAuto ==
    \/ Tick(ShortTick)
    \/ Tick(LongTick)
    \/ SensorDrift
    \/ kalibrasiAmoniaSensor
    \/ KalibrasiSample
    \/ autoKalibrasiAmoniaSensor

SpecAuto == Init /\ [][NextAuto]_vars

\* The display driver on its own.
NextDisplay == DisplayCalls

SpecDisplay == Init /\ [][NextDisplay]_vars

\* konversiKeLikert on its own.
SpecLikert == Init /\ [][konversiKeLikertCall]_vars
(***************************************************************************)
(* Properties.                                                             *)
(***************************************************************************)
\* C1: updateAmoniaBuffer leaves the sum and the count alone when sedangKalibrasi
\* is set and when R0 is 0; otherwise it adds the one sample of the reading to
\* the sum and 1 to the count.  It never changes R0, the flag,
\* lastCalibrationTime or lastAveragingTime.
C1_UpdateBuffer ==
    [][op' = "updateAmoniaBuffer" =>
         /\ UNCHANGED << R0, sedangKalibrasi, lastCalibrationTime, lastAveragingTime >>
         /\ IF sedangKalibrasi \/ R0 = 0
            THEN UNCHANGED << amoniaPPMBuffer, bufferCount >>
            ELSE LET s == getPPM(RatioOf(RsOf(adc), R0), NH3_Curve[1], NH3_Curve[2])
                 IN  /\ bufferCount' = bufferCount + 1
                     /\ amoniaPPMBuffer' =
                            IF amoniaPPMBuffer = PpmInf \/ s = PpmInf
                            THEN PpmInf ELSE amoniaPPMBuffer + s]_vars

\* C1's case: an update that did nothing because R0 is 0, with the flag clear.
C1_Witness ==
    op = "updateAmoniaBuffer" /\ ~sedangKalibrasi /\ R0 = 0 /\ bufferCount = 0

\* C2: getAveragedPPM returns sum/count (0 for an empty accumulator); before
\* AVERAGING_INTERVAL has elapsed since lastAveragingTime it changes nothing, and
\* from then on it empties the accumulator and sets lastAveragingTime to now.
C2_PeekOrFlush ==
    [][op' = "getAveragedPPM" =>
         /\ ret' = (IF bufferCount = 0 THEN 0
                    ELSE IF amoniaPPMBuffer = PpmInf THEN PpmInf
                    ELSE amoniaPPMBuffer \div bufferCount)
         /\ IF now - lastAveragingTime < 300000
            THEN UNCHANGED << amoniaPPMBuffer, bufferCount, lastAveragingTime >>
            ELSE /\ amoniaPPMBuffer' = 0
                 /\ bufferCount' = 0
                 /\ lastAveragingTime' = now]_vars

\* C2's case: a read exactly at the boundary that flushed a non-zero mean.
C2_Witness ==
    /\ op = "getAveragedPPM" /\ ret > 0
    /\ bufferCount = 0 /\ amoniaPPMBuffer = 0
    /\ lastAveragingTime = now /\ now >= AVERAGING_INTERVAL

\* C8 as claimed: the first sample of a window, for a reading at ratio 1.0, is
\* 10^(-2.3447) = 0.00452 ppm (to 1%).
C8_Claimed ==
    (op = "updateAmoniaBuffer" /\ bufferCount = 1 /\ RsOf(arg) = R0)
        => Abs(amoniaPPMBuffer - 4522) <= 45

\* C8 as amended: the sample accumulated for a reading is
\* 10^(-2.3447 * log10(Rs/R0) + 0.0670): slope -2.3447, intercept 0.0670; a
\* reading at ratio 1.0 contributes 10^0.0670 = 1.1668 ppm (to 0.1%).
C8_Sample ==
    (op = "updateAmoniaBuffer" /\ bufferCount = 1) =>
        LET ratio == RatioOf(RsOf(arg), R0)
        IN  IF ratio = 0 THEN amoniaPPMBuffer = PpmInf
            ELSE /\ amoniaPPMBuffer =
                       Pow10Fix(((0 - 23447) * Log10Fix(ratio)) \div 10000 + 670, 6)
                 /\ (ratio = RatioScale => Abs(amoniaPPMBuffer - 1166810) <= 1167)

\* C8's case: a reading at ratio 1.0 has been accumulated as the first sample.
C8_Witness ==
    op = "updateAmoniaBuffer" /\ bufferCount = 1 /\ R0 # 0 /\ RsOf(arg) = R0

\* C4 as claimed: PPM 0 -> 1, PPM 1 -> 2, PPM 2 -> 3, negative PPM as PPM 0, and
\* always one of 1, 2, 3.
C4_Claimed ==
    op = "konversiKeLikert" =>
        /\ ret \in {1, 2, 3}
        /\ (arg = 0 => ret = 1)
        /\ (arg = PpmScale => ret = 2)
        /\ (arg = 2 * PpmScale => ret = 3)
        /\ (arg < 0 => ret = 1)

\* C4 as amended: with score = -0.805 + 1.989 * max(PPM, 0) the category is 1 for
\* score <= 1.5, 2 for 1.5 < score <= 2.5 and 3 above; PPM 0 (score -0.805) and
\* PPM 1 (score 1.184) yield 1, PPM 1.5 (score 2.1785) yields 2, PPM 2 (score
\* 3.173) yields 3, and every negative PPM yields what PPM 0 yields.
C4_Likert ==
    op = "konversiKeLikert" =>
        LET p     == IF arg < 0 THEN 0 ELSE arg
            score == (0 - 805000) + 1989 * (p \div 1000)
        IN  /\ ret = (IF score <= 1500000 THEN 1 ELSE IF score <= 2500000 THEN 2 ELSE 3)
            /\ (arg = 0 => score = 0 - 805000 /\ ret = 1)
            /\ (arg = PpmScale => score = 1184000 /\ ret = 1)
            /\ (2 * arg = 3 * PpmScale => score = 2178500 /\ ret = 2)
            /\ (arg = 2 * PpmScale => score = 3173000 /\ ret = 3)
            /\ (arg < 0 => ret = 1)

\* C4's case: konversiKeLikert has been applied to 1 ppm.
C4_Witness == op = "konversiKeLikert" /\ arg = PpmScale /\ ret = 1

\* C7: displayStatus(s) draws the status screen, once, and caches s if and only
\* if s differs from the cached currentStatus; with an unchanged string it draws
\* nothing and changes nothing.  displayRunningStatus and displayPortalStatus
\* draw their screen on every call and leave currentStatus alone.
C7_Redraw ==
    [][/\ op' = "displayStatus" =>
            IF arg' # currentStatus
            THEN drawn' = 1 /\ oled' = StatusScreen(arg') /\ currentStatus' = arg'
            ELSE drawn' = 0 /\ UNCHANGED << currentStatus, oled >>
       /\ op' = "displayRunningStatus" =>
            /\ drawn' = 1 /\ UNCHANGED currentStatus
            /\ oled' = << "running", arg'[2], arg'[1] >>
       /\ op' = "displayPortalStatus" =>
            /\ drawn' = 1 /\ UNCHANGED currentStatus
            /\ oled' = << "portal", arg'[1], arg'[2] >>]_vars

\* C7's case: a displayStatus call with the cached string drew nothing while
\* the panel showed another screen.
C7_Witness ==
    /\ op = "displayStatus" /\ drawn = 0 /\ arg = currentStatus
    /\ oled \in {RunningScreen(ip, id) : ip \in IpAddresses, id \in DeviceIds}

\* C10: whenever displayStatus(s) has returned, the panel shows the status
\* screen of s; and when setupDisplay has returned, the panel shows the status
\* screen of "Memulai...".
C10_ScreenShowsStatus ==
    /\ op = "displayStatus" => oled = StatusScreen(arg)
    /\ (op = "setupDisplay" /\ pc = "idle") => oled = StatusScreen("Memulai...")

\* C6 as claimed: autoKalibrasiAmoniaSensor enters calibration exactly when no
\* calibration is in progress and the time since lastCalibrationTime exceeds
\* calibrationInterval; otherwise it changes no state.
C6_Claimed ==
    [][op' = "autoKalibrasiAmoniaSensor" =>
         IF ~sedangKalibrasi /\ now - lastCalibrationTime > 7200000
         THEN sedangKalibrasi' /\ pc' = "sampling"
         ELSE UNCHANGED << R0, sedangKalibrasi, lastCalibrationTime, currentStatus,
                           oled, pc >>]_vars

\* C6 as amended: autoKalibrasiAmoniaSensor enters calibration exactly when no
\* calibration is in progress and the time since lastCalibrationTime is at least
\* calibrationInterval (2 hours): it sets the flag, signals "Auto Kalibrasi" and
\* runs the calibration.  Otherwise it changes no state.  The calibration it
\* runs keeps the flag set while it samples and returns with the flag clear and
\* lastCalibrationTime at the time of the return.
C6_AutoKalibrasi ==
    /\ [][op' = "autoKalibrasiAmoniaSensor" =>
            IF ~sedangKalibrasi /\ now - lastCalibrationTime >= 7200000
            THEN /\ sedangKalibrasi' /\ pc' = "sampling" /\ hist'.via = "auto"
                 /\ currentStatus' = "Kalibrasi..." /\ drawn' = 2
                 /\ UNCHANGED << R0, lastCalibrationTime >>
            ELSE UNCHANGED << R0, sedangKalibrasi, lastCalibrationTime, currentStatus,
                              oled, pc, hist, amoniaPPMBuffer, bufferCount,
                              lastAveragingTime >>]_vars
    /\ [](hist.via = "auto" =>
            /\ pc = "sampling" => sedangKalibrasi
            /\ op = "kalibrasiReturn" =>
                  ~sedangKalibrasi /\ lastCalibrationTime = now /\ pc = "idle")

\* C6's case: a calibration entered by autoKalibrasiAmoniaSensor exactly two
\* hours after the last one has returned.
C6_Witness ==
    /\ op = "kalibrasiReturn" /\ hist.via = "auto"
    /\ lastCalibrationTime = now /\ ~sedangKalibrasi

\* C3 as claimed: a run whose series stabilises at V (the counter reaches 5 and
\* the latest samples equal V) sets R0 within 2% of V, whatever was sampled
\* before.
C3_Claimed ==
    (op = "kalibrasiReturn" /\ hist.run = 5 /\ hist.eq >= 5)
        => 50 * Abs(R0 - hist.last) < hist.last

\* C3 as amended: a run whose series stabilises at V sets R0 to the mean of all
\* the samples of the run, those before stabilisation included, whatever R0 an
\* earlier run left; R0 is within 2% of V when every sample of the run is.
C3_Baseline ==
    (op = "kalibrasiReturn" /\ hist.run = 5 /\ hist.eq >= 5) =>
        /\ R0 = hist.sum \div hist.n
        /\ (50 * (hist.last - hist.lo) < hist.last /\ 50 * (hist.hi - hist.last) < hist.last)
               => 50 * Abs(R0 - hist.last) < hist.last

\* C3's case: a second run has stabilised on a series that is not constant and
\* stays within 2% of its final value.
C3_Witness ==
    /\ op = "kalibrasiReturn" /\ hist.run = 5 /\ hist.eq >= 5 /\ used.runs = 2
    /\ hist.lo # hist.hi
    /\ 50 * (hist.last - hist.lo) < hist.last /\ 50 * (hist.hi - hist.last) < hist.last

\* C5: a calibration run never takes more than 30 samples: every sample it
\* takes either returns or moves the loop index, which stays below 30, up by
\* one.  When the run has returned, on either path, sedangKalibrasi is false,
\* lastCalibrationTime is the time of the return, R0 is the baseline of the
\* run's samples, and the display's last status is "Online".
C5_Completes ==
    /\ [][(pc = "sampling" /\ op' \in {"kalibrasiSample", "kalibrasiReturn"}) =>
            \/ op' = "kalibrasiReturn" /\ pc' = "idle"
            \/ op' = "kalibrasiSample" /\ pc' = "sampling" /\ i' = i + 1 /\ i' < 30]_vars
    /\ [](pc = "sampling" => i < 30 /\ hist.n = i)
    /\ [](op = "kalibrasiReturn" =>
            /\ pc = "idle" /\ hist.n \in 1 .. 30
            /\ ~sedangKalibrasi
            /\ lastCalibrationTime = now
            /\ R0 = hist.sum \div hist.n
            /\ currentStatus = "Online" /\ oled = StatusScreen("Online"))

\* C5's case: a run has returned after the loop, with the budget of 30 samples
\* used up and no stabilisation.
C5_Witness ==
    op = "kalibrasiReturn" /\ hist.n = 30 /\ hist.run < 5 /\ ~sedangKalibrasi

\* C9: inside the loop the stability counter is the number of consecutive
\* latest samples, from the second on, whose change from their predecessor is
\* below 2% of the predecessor, and it is below 5; the run returns at the first
\* sample at which the counter is 5, never before the 6th sample, and otherwise
\* after the 30th; R0 is then the mean of all the samples of the run.
C9_Stability ==
    /\ pc = "sampling" =>
          /\ stabilCount = hist.run /\ hist.run < 5
          /\ hist.n = i /\ hist.n < 30
          /\ totalRs = hist.sum
          /\ i > 0 => rsLama = hist.last
    /\ op = "kalibrasiReturn" =>
          /\ hist.run = 5 \/ hist.n = 30
          /\ hist.n >= 6
          /\ R0 = hist.sum \div hist.n

\* C9's case: a run has returned at the counter's 5 after a reset, so after more
\* than 6 samples and with samples before stabilisation in the mean.
C9_Witness ==
    /\ op = "kalibrasiReturn" /\ hist.run = 5 /\ hist.n > 6 /\ hist.n < 30
    /\ hist.lo # hist.hi /\ R0 # hist.last
====
